---- MODULE Spec2Model ----
(***************************************************************************)
(* SealEngine scene graph (src/src/scene.rs): a flat table of nodes keyed  *)
(* by handle, parent/children edges, local and world transforms and the    *)
(* list of handles whose world transform is stale; the per-frame update of *)
(* State (src/src/state.rs), which moves the camera and keeps the camera's *)
(* scene node in step with it; and the instance manager                    *)
(* (src/src/instance_manager.rs), which keeps one buffer of instance       *)
(* records per node handle; and the input state (src/src/input.rs), which  *)
(* follows the window's key and mouse events between two frames.           *)
(*                                                                         *)
(* Five specifications share the variables: Spec (the scene graph's        *)
(* hierarchy and transform operations), SpecModels (drawables, visibility  *)
(* and the iterator over visible drawables), SpecFrame (State::new and     *)
(* State::update), SpecInstances (the instance manager) and SpecInput      *)
(* (the input state).                                                      *)
(*                                                                         *)
(* Matrices are 4x4 integer matrices (a tuple of four rows), multiplied as *)
(* matrices are; transforms are drawn from a small set of positions,       *)
(* unit quaternions and scales whose matrices have integer entries.        *)
(*                                                                         *)
(* dirty_transforms is a Vec that the code pushes to, searches (contains), *)
(* tests for emptiness and clears; it never indexes it or iterates over    *)
(* it. The order of its entries is not observable, so it is kept as the    *)
(* number of entries per handle: how often a handle occurs is kept, where  *)
(* in the list it occurs is not.                                           *)
(***************************************************************************)
EXTENDS Integers, Sequences, FiniteSets, TLC

\* Bounds of the model.
MaxNodes == 3      \* create_node is taken while next_handle < MaxNodes
MaxCoord == 1      \* x coordinate of a position given to set_transform: 1..MaxCoord
MaxEye == 2        \* the camera stays within -MaxEye..MaxEye on the x and y axes
max_instances_per_buffer == 1
                   \* InstanceManager.max_instances_per_buffer, the argument of
                   \* InstanceManager::new; update_instances is given up to
                   \* max_instances_per_buffer + 2 instances

VARIABLES
    nodes,             \* SceneGraph.nodes: handle -> SceneNode
    next_handle,       \* SceneGraph.next_handle
    dirty_transforms,  \* SceneGraph.dirty_transforms: handle -> number of entries
    camera_eye,        \* State.camera_state.camera.eye
    camera_node,       \* State.camera_node: None until State::new has run
    instance_buffers,  \* InstanceManager.instance_buffers: handle -> buffer
    instance_counts,   \* InstanceManager.instance_counts: handle -> count
    input,             \* State.input: the InputState
    last               \* the call that produced this state, and how it ended

vars == <<nodes, next_handle, dirty_transforms, camera_eye, camera_node,
          instance_buffers, instance_counts, input, last>>

\* The fields of SceneGraph, of State and of InstanceManager.
sceneVars == <<nodes, next_handle, dirty_transforms>>
stateVars == <<camera_eye, camera_node, input>>
instanceVars == <<instance_buffers, instance_counts>>

\* SceneGraph.root, set once in SceneGraph::new.
root == 0

\* Option<NodeHandle>: None is <<>>, Some(h) is <<h>>.
None == <<>>
Some(h) == <<h>>

----------------------------------------------------------------------------
\* Matrices and transforms.

Identity == << <<1, 0, 0, 0>>, <<0, 1, 0, 0>>, <<0, 0, 1, 0>>, <<0, 0, 0, 1>> >>

\* a * b for 4x4 matrices.
Mul(a, b) ==
    [i \in 1..4 |-> [j \in 1..4 |->
        a[i][1] * b[1][j] + a[i][2] * b[2][j] + a[i][3] * b[3][j] + a[i][4] * b[4][j]]]

\* glm::translation(&v)
Translation(v) ==
    << <<1, 0, 0, v[1]>>, <<0, 1, 0, v[2]>>, <<0, 0, 1, v[3]>>, <<0, 0, 0, 1>> >>

\* glm::scaling(&v)
Scaling(v) ==
    << <<v[1], 0, 0, 0>>, <<0, v[2], 0, 0>>, <<0, 0, v[3], 0>>, <<0, 0, 0, 1>> >>

\* glm::quat_to_mat4(&q) for a unit quaternion q = [x, y, z, w].
QuatToMat4(q) ==
    LET x == q.x  y == q.y  z == q.z  w == q.w
    IN  << <<w*w + x*x - y*y - z*z, 2 * (x*y - w*z),       2 * (x*z + w*y),       0>>,
           <<2 * (x*y + w*z),       w*w - x*x + y*y - z*z, 2 * (y*z - w*x),       0>>,
           <<2 * (x*z - w*y),       2 * (y*z + w*x),       w*w - x*x - y*y + z*z, 0>>,
           <<0, 0, 0, 1>> >>

\* glm::quat_identity()
QuatIdentity == [x |-> 0, y |-> 0, z |-> 0, w |-> 1]

\* A half turn about the z axis.
QuatHalfTurnZ == [x |-> 0, y |-> 0, z |-> 1, w |-> 0]

\* Transform::new()
TransformNew ==
    [position |-> <<0, 0, 0>>, rotation |-> QuatIdentity, scale |-> <<1, 1, 1>>]

\* Transform::to_matrix: translation * rotation * scale.
ToMatrix(t) ==
    Mul(Mul(Translation(t.position), QuatToMat4(t.rotation)), Scaling(t.scale))

\* The transforms a caller passes to set_transform: a translation along x, a
\* half turn about z and a non-uniform scale. Two of them do not commute.
TransformInputs ==
    { [position |-> <<p, 0, 0>>, rotation |-> QuatHalfTurnZ, scale |-> <<2, 1, 1>>] :
        p \in 1 .. MaxCoord }

----------------------------------------------------------------------------
\* Nodes.

\* Instance::new()
InstanceNew ==
    [position |-> <<0, 0, 0>>, rotation |-> QuatIdentity, scale |-> <<1, 1, 1>>]

\* A variant of SceneNode::new that starts a node without any instance.
SceneNodeNewWithoutInstance ==
    [transform       |-> TransformNew,
     world_transform |-> Identity,
     parent          |-> None,
     children        |-> <<>>,
     model           |-> None,
     instances       |-> <<>>,
     visible         |-> TRUE]

\* SceneNode::new (the name is a label no operation reads and is left out of
\* the record).
SceneNodeNew ==
    [transform       |-> TransformNew,
     world_transform |-> Identity,
     parent          |-> None,
     children        |-> <<>>,
     model           |-> None,
     instances       |-> <<InstanceNew>>,
     visible         |-> TRUE]

\* Vec::contains on the dirty list
Contains(d, h) == d[h] > 0

\* Vec::push on the dirty list
Push(d, h) == [d EXCEPT ![h] = @ + 1]

\* Vec::new, and the list after Vec::clear: no entry for any handle
\* (handles are 0 .. MaxNodes: next_handle never passes MaxNodes).
EmptyVec == [h \in 0 .. MaxNodes |-> 0]

\* Vec::retain(|&handle| handle != child)
RECURSIVE Retain(_, _)
Retain(s, child) ==
    IF s = <<>> THEN <<>>
    ELSE IF Head(s) = child THEN Retain(Tail(s), child)
    ELSE <<Head(s)>> \o Retain(Tail(s), child)

----------------------------------------------------------------------------
\* SceneGraph operations as functions of the node table and the dirty list.
\*
\* The two recursive walks (mark_transform_dirty, update_node_transform) carry
\* the set of handles whose call is still on the stack. The walk reads only the
\* children lists, which it never changes, so a call on a handle that is already
\* on the stack repeats itself for ever: the recursion has no base case left and
\* the call does not return (the thread's stack overflows). Such a walk yields
\* ok = FALSE.

RECURSIVE mark_transform_dirty(_, _, _, _)
RECURSIVE MarkChildrenDirty(_, _, _, _)

\* A variant of mark_transform_dirty that marks the handle and leaves its
\* children alone.
mark_transform_dirty_without_children(ns, d, handle, active) ==
    [ok |-> TRUE, dirty |-> IF ~Contains(d, handle) THEN Push(d, handle) ELSE d]

\* A variant of mark_transform_dirty that pushes the handle without looking
\* whether the dirty list contains it.
mark_transform_dirty_always_pushes(ns, d, handle, active) ==
    IF handle \in active THEN [ok |-> FALSE, dirty |-> d]
    ELSE IF handle \in DOMAIN ns
         THEN MarkChildrenDirty(ns, Push(d, handle), ns[handle].children,
                                active \cup {handle})
         ELSE [ok |-> TRUE, dirty |-> Push(d, handle)]

\* SceneGraph::mark_transform_dirty(handle), with dirty list d.
mark_transform_dirty(ns, d, handle, active) ==
    IF handle \in active THEN [ok |-> FALSE, dirty |-> d]
    ELSE
        LET d1 == IF ~Contains(d, handle) THEN Push(d, handle) ELSE d
        IN  IF handle \in DOMAIN ns
            THEN MarkChildrenDirty(ns, d1, ns[handle].children, active \cup {handle})
            ELSE [ok |-> TRUE, dirty |-> d1]

\* for child in children { self.mark_transform_dirty(child); }
MarkChildrenDirty(ns, d, children, active) ==
    IF children = <<>> THEN [ok |-> TRUE, dirty |-> d]
    ELSE
        LET r == mark_transform_dirty(ns, d, Head(children), active)
        IN  IF r.ok THEN MarkChildrenDirty(ns, r.dirty, Tail(children), active)
            ELSE r

RECURSIVE update_node_transform(_, _, _, _)
RECURSIVE UpdateChildren(_, _, _, _)

\* SceneGraph::update_node_transform(handle, parent_world)
update_node_transform(ns, handle, parent_world, active) ==
    IF handle \in active THEN [ok |-> FALSE, nodes |-> ns]
    ELSE IF handle \notin DOMAIN ns THEN [ok |-> TRUE, nodes |-> ns]
    ELSE
        LET local_transform == ToMatrix(ns[handle].transform)
            world_transform == Mul(parent_world, local_transform)
            ns1 == [ns EXCEPT ![handle].world_transform = world_transform]
        IN  UpdateChildren(ns1, ns1[handle].children, world_transform,
                           active \cup {handle})

\* for child in children { self.update_node_transform(child, &world_transform); }
UpdateChildren(ns, children, world_transform, active) ==
    IF children = <<>> THEN [ok |-> TRUE, nodes |-> ns]
    ELSE
        LET r == update_node_transform(ns, Head(children), world_transform, active)
        IN  IF r.ok THEN UpdateChildren(r.nodes, Tail(children), world_transform, active)
            ELSE r

\* A variant of DetachFromOldParent that forgets the retain: the child stays in
\* the children list of its old parent.
DetachFromOldParentKeepsChild(ns, child) == ns

\* attach_to_parent, "Remove from old parent if exists".
DetachFromOldParent(ns, child) ==
    IF ns[child].parent # None
    THEN LET old_parent == ns[child].parent[1]
         IN  IF old_parent \in DOMAIN ns
             THEN [ns EXCEPT ![old_parent].children = Retain(@, child)]
             ELSE ns
    ELSE ns

\* A variant of SetNewParent that pushes the child to the parent's list and
\* forgets to set child.parent.
SetNewParentWithoutBackLink(ns, child, parent) ==
    [ns EXCEPT ![parent].children = Append(@, child)]

\* attach_to_parent, "Set new parent".
SetNewParent(ns, child, parent) ==
    LET ns1 == [ns EXCEPT ![child].parent = Some(parent)]
    IN  [ns1 EXCEPT ![parent].children = Append(@, child)]

\* The handle check that opens attach_to_parent.
ValidHandles(ns, child, parent) == child \in DOMAIN ns /\ parent \in DOMAIN ns

\* A variant of attach_to_parent that links the child under its new parent and
\* forgets to mark it dirty.
attach_to_parent_without_mark(ns, d, child, parent) ==
    IF ~ValidHandles(ns, child, parent)
    THEN [result |-> "Err", nodes |-> ns, dirty |-> d]
    ELSE [result |-> "Ok",
          nodes  |-> SetNewParent(DetachFromOldParent(ns, child), child, parent),
          dirty  |-> d]

\* A variant of attach_to_parent that marks the child dirty before it checks the
\* handles, so that a refused call leaves an entry in the dirty list.
attach_to_parent_marks_before_check(ns, d, child, parent) ==
    IF ~ValidHandles(ns, child, parent)
    THEN [result |-> "Err", nodes |-> ns,
          dirty |-> mark_transform_dirty(ns, d, child, {}).dirty]
    ELSE
        LET ns1 == SetNewParent(DetachFromOldParent(ns, child), child, parent)
            m   == mark_transform_dirty(ns1, d, child, {})
        IN  [result |-> IF m.ok THEN "Ok" ELSE "diverged",
             nodes  |-> ns1,
             dirty  |-> m.dirty]

\* SceneGraph::attach_to_parent(child, parent)
attach_to_parent(ns, d, child, parent) ==
    IF ~ValidHandles(ns, child, parent)
    THEN [result |-> "Err", nodes |-> ns, dirty |-> d]
    ELSE
        LET ns1 == SetNewParent(DetachFromOldParent(ns, child), child, parent)
            m   == mark_transform_dirty(ns1, d, child, {})
        IN  [result |-> IF m.ok THEN "Ok" ELSE "diverged",
             nodes  |-> ns1,
             dirty  |-> m.dirty]

\* A variant of set_transform that overwrites the transform and forgets to mark
\* the node dirty.
set_transform_without_mark(ns, d, handle, transform) ==
    IF handle \in DOMAIN ns
    THEN [result |-> "Ok",
          nodes  |-> [ns EXCEPT ![handle].transform = transform],
          dirty  |-> d]
    ELSE [result |-> "Ignored", nodes |-> ns, dirty |-> d]

\* SceneGraph::set_transform(handle, transform)
set_transform(ns, d, handle, transform) ==
    IF handle \in DOMAIN ns
    THEN LET ns1 == [ns EXCEPT ![handle].transform = transform]
             m   == mark_transform_dirty(ns1, d, handle, {})
         IN  [result |-> IF m.ok THEN "Ok" ELSE "diverged",
              nodes  |-> ns1,
              dirty  |-> m.dirty]
    ELSE [result |-> "Ignored", nodes |-> ns, dirty |-> d]

\* A variant of create_node that forgets to advance the allocation counter.
create_node_keeps_counter(ns, d, nh) ==
    [handle      |-> nh,
     next_handle |-> nh,
     nodes       |-> [h \in DOMAIN ns \cup {nh} |-> IF h = nh THEN SceneNodeNew ELSE ns[h]],
     dirty       |-> Push(d, nh)]

\* SceneGraph::create_node(name), with allocation counter nh: the handle it
\* returns and the graph it leaves (HashMap::insert replaces an entry that
\* has the key already).
create_node(ns, d, nh) ==
    [handle      |-> nh,
     next_handle |-> nh + 1,
     nodes       |-> [h \in DOMAIN ns \cup {nh} |-> IF h = nh THEN SceneNodeNew ELSE ns[h]],
     dirty       |-> Push(d, nh)]

\* SceneGraph::set_model(handle, model)
set_model(ns, handle, model) ==
    IF handle \in DOMAIN ns
    THEN [result |-> "Ok", nodes |-> [ns EXCEPT ![handle].model = Some(model)]]
    ELSE [result |-> "Ignored", nodes |-> ns]

\* SceneGraph::set_model_ref(handle, &model)
set_model_ref(ns, handle, model) ==
    IF handle \in DOMAIN ns
    THEN [result |-> "Ok", nodes |-> [ns EXCEPT ![handle].model = Some(model)]]
    ELSE [result |-> "Err", nodes |-> ns]

\* The orders in which HashMap::iter may visit the keys in S: every sequence
\* that holds each key once.
RECURSIVE Orders(_)
Orders(S) ==
    IF S = {} THEN {<<>>}
    ELSE UNION { { <<h>> \o o : o \in Orders(S \ {h}) } : h \in S }

\* A variant of iter_visible_models that tests the visibility flag alone.
iter_visible_models_ignores_model(ns) ==
    LET keep(h) == ns[h].visible
    IN  { SelectSeq(o, keep) : o \in Orders(DOMAIN ns) }

\* SceneGraph::iter_visible_models(): the sequences of handles the iterator
\* may yield when it is run to its end (each handle stands for the pair of the
\* handle and its node).
iter_visible_models(ns) ==
    LET keep(h) == ns[h].visible /\ ns[h].model # None
    IN  { SelectSeq(o, keep) : o \in Orders(DOMAIN ns) }

\* A variant of update_transforms that leaves the dirty list as it found it.
update_transforms_keeps_dirty(ns, d) ==
    IF d = EmptyVec
    THEN [result |-> "Noop", nodes |-> ns, dirty |-> d]
    ELSE LET r == update_node_transform(ns, root, Identity, {})
         IN  [result |-> IF r.ok THEN "Ok" ELSE "diverged", nodes |-> r.nodes, dirty |-> d]

\* SceneGraph::update_transforms()
update_transforms(ns, d) ==
    IF d = EmptyVec
    THEN [result |-> "Noop", nodes |-> ns, dirty |-> d]
    ELSE LET r == update_node_transform(ns, root, Identity, {})
         IN  IF r.ok
             THEN [result |-> "Ok", nodes |-> r.nodes, dirty |-> EmptyVec]
             ELSE [result |-> "diverged", nodes |-> r.nodes, dirty |-> d]

----------------------------------------------------------------------------
\* The state machine: one action per public operation of SceneGraph.

\* The record of a call: the operation, how it ended ("Ok"; "Err", "Ignored" and
\* "Noop" for the early returns; "diverged" when it did not return) and the
\* arguments of a call that went past its early return.
\* HashMap::insert and HashMap::remove
Insert(map, key, value) ==
    [k \in DOMAIN map \cup {key} |-> IF k = key THEN value ELSE map[k]]

Remove(map, key) == [k \in DOMAIN map \ {key} |-> map[k]]

\* HashMap::get(key).copied().unwrap_or(false)
GetOrFalse(map, key) == IF key \in DOMAIN map THEN map[key] ELSE FALSE

\* InputState::new: the derived Default, empty maps and zeroes
InputNew ==
    [keys              |-> <<>>,
     keys_pressed      |-> <<>>,
     keys_released     |-> <<>>,
     mouse_buttons     |-> <<>>,
     mouse_position    |-> <<0, 0>>,
     mouse_delta       |-> <<0, 0>>,
     mouse_wheel_delta |-> 0]

\* A variant of the keyboard branch that records a press on every Pressed
\* event, whether the key was held before or not.
keyboard_input_without_was_pressed(inp, keycode, state) ==
    LET is_pressed == state = "Pressed"
        was_pressed == GetOrFalse(inp.keys, keycode)
    IN  [inp EXCEPT
           !.keys = Insert(inp.keys, keycode, is_pressed),
           !.keys_pressed =
               IF is_pressed THEN Insert(inp.keys_pressed, keycode, TRUE)
               ELSE inp.keys_pressed,
           !.keys_released =
               IF ~is_pressed /\ was_pressed
               THEN Insert(inp.keys_released, keycode, TRUE)
               ELSE inp.keys_released]

\* The KeyboardInput branch of handle_window_event for a physical key that
\* has a key code.
keyboard_input(inp, keycode, state) ==
    LET is_pressed == state = "Pressed"
        was_pressed == GetOrFalse(inp.keys, keycode)
    IN  [inp EXCEPT
           !.keys = Insert(inp.keys, keycode, is_pressed),
           !.keys_pressed =
               IF is_pressed /\ ~was_pressed
               THEN Insert(inp.keys_pressed, keycode, TRUE)
               ELSE inp.keys_pressed,
           !.keys_released =
               IF ~is_pressed /\ was_pressed
               THEN Insert(inp.keys_released, keycode, TRUE)
               ELSE inp.keys_released]

\* InputState::handle_window_event. An event is a record with the variant's
\* name in kind and the variant's fields; the wheel's pixel delta is divided
\* by 100 (the events of the model carry multiples of 100).
handle_window_event(inp, event) ==
    CASE event.kind = "KeyboardInput" ->
             IF event.physical_key.kind = "Code"
             THEN keyboard_input(inp, event.physical_key.code, event.state)
             ELSE inp
      [] event.kind = "MouseInput" ->
             [inp EXCEPT !.mouse_buttons =
                 Insert(inp.mouse_buttons, event.button, event.state = "Pressed")]
      [] event.kind = "CursorMoved" ->
             [inp EXCEPT
                !.mouse_delta = <<event.position[1] - inp.mouse_position[1],
                                  event.position[2] - inp.mouse_position[2]>>,
                !.mouse_position = event.position]
      [] event.kind = "MouseWheel" ->
             [inp EXCEPT !.mouse_wheel_delta =
                 IF event.delta.kind = "LineDelta" THEN event.delta.y
                 ELSE event.delta.y \div 100]
      [] OTHER -> inp

\* InputState::end_frame
end_frame(inp) ==
    [inp EXCEPT !.keys_pressed = <<>>,
                !.keys_released = <<>>,
                !.mouse_delta = <<0, 0>>,
                !.mouse_wheel_delta = 0]

\* The keyboard queries of InputState
is_key_held(inp, key) == GetOrFalse(inp.keys, key)

is_key_pressed(inp, key) == GetOrFalse(inp.keys_pressed, key)

is_key_released(inp, key) == GetOrFalse(inp.keys_released, key)

NoArgs == [none |-> TRUE]

Called(op, result, args) ==
    [op |-> op, result |-> result,
     args |-> IF result \in {"Ok", "diverged"} THEN args ELSE NoArgs]

\* The handles a caller passes: every handle of the table, and the first handle
\* the graph has not handed out (no node has it now; create_node may return it
\* later).
Handles == DOMAIN nodes \cup {next_handle}

\* A call that did not return has ended the process; nothing runs after it.
Running == last.result # "diverged"

\* SceneGraph::new, the camera of CameraState::new, InstanceManager::new
Init ==
    /\ nodes = [h \in {root} |-> SceneNodeNew]
    /\ next_handle = 1
    /\ dirty_transforms = EmptyVec
    /\ camera_eye = <<0, 0, 0>>
    /\ camera_node = None
    /\ instance_buffers = <<>>
    /\ instance_counts = <<>>
    /\ input = InputNew
    /\ last = Called("new", "Ok", NoArgs)

\* SceneGraph::create_node
CreateNode ==
    /\ Running
    /\ next_handle < MaxNodes
    /\ LET r == create_node(nodes, dirty_transforms, next_handle)
       IN  /\ next_handle' = r.next_handle
           /\ nodes' = r.nodes
           /\ dirty_transforms' = r.dirty
           /\ last' = Called("create_node", "Ok", [handle |-> r.handle])

AttachToParent(child, parent) ==
    /\ Running
    /\ LET r == attach_to_parent(nodes, dirty_transforms, child, parent)
       IN  /\ nodes' = r.nodes
           /\ dirty_transforms' = r.dirty
           /\ last' = Called("attach_to_parent", r.result,
                              [child |-> child, parent |-> parent,
                               old_parent |-> nodes[child].parent])
    /\ UNCHANGED next_handle

\* SceneGraph::attach_to_root
AttachToRoot(child) ==
    /\ Running
    /\ LET r == attach_to_parent(nodes, dirty_transforms, child, root)
       IN  /\ nodes' = r.nodes
           /\ dirty_transforms' = r.dirty
           /\ last' = Called("attach_to_root", r.result,
                              [child |-> child, parent |-> root,
                               old_parent |-> nodes[child].parent])
    /\ UNCHANGED next_handle

SetTransform(handle, transform) ==
    /\ Running
    /\ LET r == set_transform(nodes, dirty_transforms, handle, transform)
       IN  /\ nodes' = r.nodes
           /\ dirty_transforms' = r.dirty
           /\ last' = Called("set_transform", r.result, [handle |-> handle])
    /\ UNCHANGED next_handle

MarkTransformDirty(handle) ==
    /\ Running
    /\ LET m == mark_transform_dirty(nodes, dirty_transforms, handle, {})
       IN  /\ dirty_transforms' = m.dirty
           /\ last' = Called("mark_transform_dirty",
                              IF m.ok THEN "Ok" ELSE "diverged", [handle |-> handle])
    /\ UNCHANGED <<nodes, next_handle>>

UpdateTransforms ==
    /\ Running
    /\ LET r == update_transforms(nodes, dirty_transforms)
       IN  /\ nodes' = r.nodes
           /\ dirty_transforms' = r.dirty
           /\ last' = Called("update_transforms", r.result, NoArgs)
    /\ UNCHANGED next_handle

Next ==
    \/ CreateNode /\ UNCHANGED <<stateVars, instanceVars>>
    \/ \E child \in Handles, parent \in Handles :
           AttachToParent(child, parent) /\ UNCHANGED <<stateVars, instanceVars>>
    \/ \E child \in Handles :
           AttachToRoot(child) /\ UNCHANGED <<stateVars, instanceVars>>
    \/ \E handle \in Handles, transform \in TransformInputs :
           SetTransform(handle, transform) /\ UNCHANGED <<stateVars, instanceVars>>
    \/ \E handle \in Handles :
           MarkTransformDirty(handle) /\ UNCHANGED <<stateVars, instanceVars>>
    \/ UpdateTransforms /\ UNCHANGED <<stateVars, instanceVars>>

Spec == Init /\ [][Next]_vars

----------------------------------------------------------------------------
\* Vocabulary of the properties.

IsAttach(l) == l.op \in {"attach_to_parent", "attach_to_root"}

\* How often handle c occurs in the list s.
Count(s, c) == Cardinality({i \in 1 .. Len(s) : s[i] = c})

InChildren(ns, p, c) == Count(ns[p].children, c) > 0

\* The nodes reachable from the set S through children edges, S included.
RECURSIVE ReachDown(_, _)
ReachDown(ns, S) ==
    LET S1 == S \cup {c \in DOMAIN ns : \E p \in S \cap DOMAIN ns : InChildren(ns, p, c)}
    IN  IF S1 = S THEN S ELSE ReachDown(ns, S1)

\* The descendants of h: its children, their children, and so on.
Descendants(ns, h) ==
    ReachDown(ns, {c \in DOMAIN ns : InChildren(ns, h, c)})

\* The nodes reached from the set S by following parent links, S included.
RECURSIVE ReachUp(_, _)
ReachUp(ns, S) ==
    LET S1 == S \cup {p \in DOMAIN ns : \E c \in S \cap DOMAIN ns : ns[c].parent = Some(p)}
    IN  IF S1 = S THEN S ELSE ReachUp(ns, S1)

\* The ancestors of h: its parent, the parent's parent, and so on.
Ancestors(ns, h) ==
    ReachUp(ns, {p \in DOMAIN ns : ns[h].parent = Some(p)})

\* The world transform of h is the one the formula of the data model gives:
\* parent.world_transform x local.to_matrix(), the local matrix for a node
\* without a parent.
WorldMatches(ns, h) ==
    ns[h].world_transform =
        IF ns[h].parent = None
        THEN ToMatrix(ns[h].transform)
        ELSE Mul(ns[ns[h].parent[1]].world_transform, ToMatrix(ns[h].transform))

----------------------------------------------------------------------------
\* Properties.

\* C1: when update_transforms() has returned from a pass that started with a
\* non-empty dirty list, the dirty list is empty and every node of the table,
\* attached under the root or not, has world_transform = parent.world_transform
\* x local.to_matrix() (its own local matrix when it has no parent).
C1_RecomputeMakesEveryWorldCurrent ==
    (last.op = "update_transforms" /\ last.result = "Ok") =>
        /\ dirty_transforms = EmptyVec
        /\ \A h \in DOMAIN nodes : WorldMatches(nodes, h)

\* C2: parent and children agree: c is in p.children exactly when c.parent is
\* Some(p), for all nodes c and p of the table.
C2_ParentChildrenConsistent ==
    \A c \in DOMAIN nodes, p \in DOMAIN nodes :
        InChildren(nodes, p, c) <=> nodes[c].parent = Some(p)

\* A node that had a parent was attached again, and its parent now has two
\* children.
C2_Witness ==
    /\ IsAttach(last) /\ last.result = "Ok"
    /\ last.args.old_parent # None
    /\ Len(nodes[last.args.parent].children) = 2
    /\ nodes[last.args.child].parent = Some(last.args.parent)

\* C3: the root is in the node table and its parent is None after every call
\* that has returned, whatever calls were made before it.
C3_RootNeverHasParent ==
    Running => (root \in DOMAIN nodes /\ nodes[root].parent = None)

\* C4: attach_to_parent(child, parent) always returns, with Ok or with an
\* error, also when parent is child itself or one of child's descendants.
C4_AttachReturns ==
    IsAttach(last) => last.result \in {"Ok", "Err"}

\* C5: the parent relation is acyclic: no node is its own ancestor.
C5_ParentRelationAcyclic ==
    \A h \in DOMAIN nodes : h \notin Ancestors(nodes, h)

\* No children list holds the same handle twice.
NoDuplicateChildren(ns) ==
    \A p \in DOMAIN ns, c \in DOMAIN ns : Count(ns[p].children, c) <= 1

\* C6: a successful attach_to_parent(X, P) with P different from X's old parent
\* removes X from the old parent's children, sets X.parent = P and leaves X in
\* P.children exactly once and in no other children list; no children list
\* ever holds a handle twice.
C6_AttachMovesChild ==
    [][ /\ NoDuplicateChildren(nodes')
        /\ (IsAttach(last') /\ last'.result = "Ok"
              /\ last'.args.old_parent # Some(last'.args.parent)) =>
             LET X   == last'.args.child
                 P   == last'.args.parent
                 old == nodes[X].parent
             IN  /\ last'.args.old_parent = old
                 /\ old # None => ~InChildren(nodes', old[1], X)
                 /\ nodes'[X].parent = Some(P)
                 /\ Count(nodes'[P].children, X) = 1
                 /\ \A q \in DOMAIN nodes' \ {P} : ~InChildren(nodes', q, X)
      ]_vars

\* A successful attach moved a node away from a parent that keeps another child.
C6_Witness ==
    /\ IsAttach(last) /\ last.result = "Ok"
    /\ last.args.old_parent # None
    /\ last.args.old_parent # Some(last.args.parent)
    /\ nodes[last.args.old_parent[1]].children # <<>>

\* C7: after a successful attach_to_parent(X, P) followed by update_transforms(),
\* X.world_transform = P.world_transform x X.local.to_matrix(), also when P is
\* not attached under the root.
C7_AttachThenRecompute ==
    [][ (IsAttach(last) /\ last.result = "Ok" /\ last'.op = "update_transforms") =>
            LET X == last.args.child
                P == last.args.parent
            IN  nodes'[X].world_transform =
                    Mul(nodes'[P].world_transform, ToMatrix(nodes'[X].transform))
      ]_vars

\* C8: attach_to_parent(child, parent) returns an error whenever child or parent
\* is not a key of the node table, and then nothing of the graph has changed.
C8_AttachInvalidHandle ==
    [][ \A child \in Handles, parent \in Handles :
            ( /\ ~(child \in DOMAIN nodes /\ parent \in DOMAIN nodes)
              /\ (AttachToParent(child, parent) \/ (parent = root /\ AttachToRoot(child))) ) =>
                /\ last'.result = "Err"
                /\ UNCHANGED <<nodes, next_handle, dirty_transforms>>
      ]_vars

\* An attach was refused while the graph had an edge and a dirty node to keep.
C8_Witness ==
    /\ last.op = "attach_to_parent" /\ last.result = "Err"
    /\ dirty_transforms # EmptyVec
    /\ \E p \in DOMAIN nodes : nodes[p].children # <<>>

\* C9: mark_transform_dirty(h) with h not in the node table changes neither the
\* node table nor the dirty list.
C9_MarkDirtyAbsentHandle ==
    [][ \A h \in Handles :
            (h \notin DOMAIN nodes /\ MarkTransformDirty(h)) =>
                UNCHANGED <<nodes, dirty_transforms>>
      ]_vars

\* C10: set_transform(h, t) with h absent changes nothing; with h present it
\* overwrites the local transform of h and of no other node, leaves every
\* parent and every children list as it was, and leaves h and all descendants
\* of h in the dirty list.
C10_SetTransform ==
    [][ \A h \in Handles, t \in TransformInputs :
            SetTransform(h, t) =>
                IF h \notin DOMAIN nodes
                THEN UNCHANGED <<nodes, next_handle, dirty_transforms>>
                ELSE /\ DOMAIN nodes' = DOMAIN nodes
                     /\ nodes'[h].transform = t
                     /\ \A o \in DOMAIN nodes :
                            /\ o # h => nodes'[o].transform = nodes[o].transform
                            /\ nodes'[o].parent = nodes[o].parent
                            /\ nodes'[o].children = nodes[o].children
                     /\ \A o \in {h} \cup Descendants(nodes', h) :
                            Contains(dirty_transforms', o)
      ]_vars

\* set_transform changed the local transform of a node that has a child and a
\* grandchild.
C10_Witness ==
    /\ last.op = "set_transform" /\ last.result = "Ok"
    /\ LET h == last.args.handle
       IN  /\ nodes[h].transform # TransformNew
           /\ \E c \in DOMAIN nodes, g \in DOMAIN nodes :
                  /\ c # h /\ g # h /\ g # c
                  /\ InChildren(nodes, h, c) /\ InChildren(nodes, c, g)

\* C11: every handle create_node returns differs from the root handle and from
\* every handle returned before (the allocation counter strictly increases),
\* and a handle stays valid: no step removes a node from the table.
C11_HandlesFreshAndStable ==
    [][ /\ DOMAIN nodes \subseteq DOMAIN nodes'
        /\ CreateNode =>
             LET h == last'.args.handle
             IN  /\ h # root
                 /\ h \notin DOMAIN nodes
                 /\ h \in DOMAIN nodes'
                 /\ next_handle' > next_handle
                 /\ \A g \in DOMAIN nodes : g < next_handle'
      ]_vars

\* create_node returned its second handle while the first is still in the table.
C11_Witness ==
    /\ last.op = "create_node"
    /\ last.args.handle = 2
    /\ DOMAIN nodes = {root, 1, 2}

\* C12: update_transforms() called with an empty dirty list changes nothing,
\* and an update_transforms() that directly follows a returned
\* update_transforms() finds the dirty list empty and leaves every node, hence
\* every world transform, as they were; the dirty list is empty after every
\* update_transforms() that returns.
C12_UpdateTwice ==
    [][ last'.op = "update_transforms" =>
          /\ dirty_transforms = EmptyVec =>
               /\ last'.result = "Noop"
               /\ UNCHANGED <<nodes, next_handle, dirty_transforms>>
          /\ last'.result # "diverged" => dirty_transforms' = EmptyVec
          /\ last.op = "update_transforms" =>
               /\ dirty_transforms = EmptyVec
               /\ nodes' = nodes
      ]_vars

\* A recompute that did work has been followed by a second one, in a graph
\* with an attached node whose world transform is not the identity.
C12_Witness ==
    /\ last.op = "update_transforms"
    /\ last.result = "Noop"
    /\ dirty_transforms = EmptyVec
    /\ \E h \in DOMAIN nodes :
           /\ nodes[h].parent = Some(root)
           /\ nodes[h].world_transform # Identity

\* C13: attach_to_parent(c, p) that returns when c's parent is p already leaves
\* every node's parent and every node's children list, the order of p.children
\* included, as before the call.
C13_ReattachSameParent ==
    [][ ( /\ IsAttach(last')
          /\ last'.result = "Ok"
          /\ last'.args.old_parent = Some(last'.args.parent) ) =>
            \A h \in DOMAIN nodes :
                /\ nodes'[h].parent = nodes[h].parent
                /\ nodes'[h].children = nodes[h].children
      ]_vars

\* C14: mark_transform_dirty(h) on a valid h, called again directly after it
\* returned, leaves the dirty list (with the number of entries of every handle)
\* and the node table unchanged.
C14_MarkDirtyIdempotent ==
    [][ ( /\ last.op = "mark_transform_dirty"
          /\ last.result = "Ok"
          /\ last.args.handle \in DOMAIN nodes
          /\ MarkTransformDirty(last.args.handle) ) =>
            UNCHANGED <<nodes, dirty_transforms>>
      ]_vars

\* mark_transform_dirty has returned on a node that has a child, and the node
\* and its child have one entry each in the dirty list.
C14_Witness ==
    /\ last.op = "mark_transform_dirty"
    /\ last.result = "Ok"
    /\ last.args.handle \in DOMAIN nodes
    /\ nodes[last.args.handle].children # <<>>
    /\ dirty_transforms[last.args.handle] = 1
    /\ \A c \in DOMAIN nodes :
           InChildren(nodes, last.args.handle, c) => dirty_transforms[c] = 1

\* C15: after every call that has returned the dirty list is closed under
\* descendants: when a node is in the list, every node reachable from it
\* through children edges is in the list too, children attached after the
\* ancestor was marked included.
C15_DirtyClosedUnderDescendants ==
    Running =>
        \A h \in DOMAIN nodes :
            Contains(dirty_transforms, h) =>
                \A g \in Descendants(nodes, h) : Contains(dirty_transforms, g)

\* The root, which is in the dirty list, has been given a child that has a
\* child of its own, and the three are in the list.
C15_Witness ==
    /\ IsAttach(last)
    /\ last.result = "Ok"
    /\ last.args.parent = root
    /\ Contains(dirty_transforms, last.args.parent)
    /\ nodes[last.args.child].children # <<>>
    /\ \A g \in Descendants(nodes, last.args.parent) : Contains(dirty_transforms, g)

\* C16: directly after create_node the new node has the identity local
\* transform, the identity world transform, exactly one default instance,
\* visible = true, no parent, no children and no drawable, its handle is in the
\* dirty list, and every node that existed before is as it was.
C16_CreateNodePostcondition ==
    [][ last'.op = "create_node" =>
          LET h == last'.args.handle
              n == nodes'[h]
          IN  /\ h \notin DOMAIN nodes
              /\ DOMAIN nodes' = DOMAIN nodes \cup {h}
              /\ n.transform.position = <<0, 0, 0>>
              /\ n.transform.rotation = [x |-> 0, y |-> 0, z |-> 0, w |-> 1]
              /\ n.transform.scale = <<1, 1, 1>>
              /\ n.world_transform = Identity
              /\ Len(n.instances) = 1
              /\ n.instances[1].position = <<0, 0, 0>>
              /\ n.instances[1].rotation = [x |-> 0, y |-> 0, z |-> 0, w |-> 1]
              /\ n.instances[1].scale = <<1, 1, 1>>
              /\ n.visible = TRUE
              /\ n.parent = None
              /\ n.children = <<>>
              /\ n.model = None
              /\ Contains(dirty_transforms', h)
              /\ \A g \in DOMAIN nodes : nodes'[g] = nodes[g]
      ]_vars

\* create_node has returned in a graph whose older nodes have been attached,
\* moved and recomputed.
C16_Witness ==
    /\ last.op = "create_node"
    /\ last.args.handle = 2
    /\ nodes[1].parent = Some(root)
    /\ nodes[1].world_transform # Identity
    /\ nodes[2].instances = <<InstanceNew>>

-----------------------------------------------------------------------------
\* Drawables and visibility: the scene graph with the operations that set a
\* node's drawable and its visibility flag, and the iterator over the visible
\* drawables.

\* The drawables a caller passes to set_model and set_model_ref (the iterator
\* tests only whether a node has one).
ModelInputs == {"mesh"}

\* SceneGraph::set_model
SetModel(handle, model) ==
    /\ Running
    /\ LET r == set_model(nodes, handle, model)
       IN  /\ nodes' = r.nodes
           /\ last' = Called("set_model", r.result, [handle |-> handle])
    /\ UNCHANGED <<next_handle, dirty_transforms>>

\* SceneGraph::set_model_ref
SetModelRef(handle, model) ==
    /\ Running
    /\ LET r == set_model_ref(nodes, handle, model)
       IN  /\ nodes' = r.nodes
           /\ last' = Called("set_model_ref", r.result, [handle |-> handle])
    /\ UNCHANGED <<next_handle, dirty_transforms>>

\* A caller's write to the public field visible through get_node_mut:
\* if let Some(node) = scene.get_node_mut(handle) { node.visible = visible; }
SetVisible(handle, visible) ==
    /\ Running
    /\ IF handle \in DOMAIN nodes
       THEN /\ nodes' = [nodes EXCEPT ![handle].visible = visible]
            /\ last' = Called("set_visible", "Ok", [handle |-> handle])
       ELSE /\ nodes' = nodes
            /\ last' = Called("set_visible", "Ignored", NoArgs)
    /\ UNCHANGED <<next_handle, dirty_transforms>>

\* SceneGraph::iter_visible_models, run to its end
IterVisibleModels ==
    /\ Running
    /\ \E yielded \in iter_visible_models(nodes) :
           last' = Called("iter_visible_models", "Ok", [yielded |-> yielded])
    /\ UNCHANGED <<nodes, next_handle, dirty_transforms>>

NextModels ==
    \/ CreateNode /\ UNCHANGED <<stateVars, instanceVars>>
    \/ \E child \in Handles :
           AttachToRoot(child) /\ UNCHANGED <<stateVars, instanceVars>>
    \/ UpdateTransforms /\ UNCHANGED <<stateVars, instanceVars>>
    \/ \E handle \in Handles, model \in ModelInputs :
           SetModel(handle, model) /\ UNCHANGED <<stateVars, instanceVars>>
    \/ \E handle \in Handles, model \in ModelInputs :
           SetModelRef(handle, model) /\ UNCHANGED <<stateVars, instanceVars>>
    \/ \E handle \in Handles, visible \in BOOLEAN :
           SetVisible(handle, visible) /\ UNCHANGED <<stateVars, instanceVars>>
    \/ IterVisibleModels /\ UNCHANGED <<stateVars, instanceVars>>

SpecModels == Init /\ [][NextModels]_vars

\* C17: iter_visible_models() yields each node of the table that has
\* visible = true and a drawable exactly once and yields no other handle,
\* whatever the dirty list holds and whether or not the node is attached under
\* the root.
C17_IterVisibleModels ==
    last.op = "iter_visible_models" =>
        LET yielded == last.args.yielded
        IN  /\ \A h \in DOMAIN nodes :
                   Count(yielded, h) =
                       IF nodes[h].visible /\ nodes[h].model # None THEN 1 ELSE 0
            /\ \A i \in 1 .. Len(yielded) : yielded[i] \in DOMAIN nodes

\* The iterator has yielded a node that is not attached and is not in the dirty
\* list and a node that is attached and is in the dirty list, and has left out
\* an invisible node that has a drawable.
C17_Witness ==
    /\ last.op = "iter_visible_models"
    /\ Len(last.args.yielded) = 2
    /\ \E h \in DOMAIN nodes :
           /\ Count(last.args.yielded, h) = 1
           /\ nodes[h].parent = None
           /\ ~Contains(dirty_transforms, h)
    /\ \E h \in DOMAIN nodes :
           /\ Count(last.args.yielded, h) = 1
           /\ nodes[h].parent = Some(root)
           /\ Contains(dirty_transforms, h)
    /\ \E h \in DOMAIN nodes : ~nodes[h].visible /\ nodes[h].model # None

-----------------------------------------------------------------------------
\* The frame: State::new builds the scene with the camera node, State::update
\* runs once per frame.

\* The displacement CameraController::update_camera adds to camera.eye in one
\* frame. It is computed from the controller's movement amounts, its speed and
\* the frame time; here it is any step of at most one unit along x and y.
EyeMoves == { <<dx, dy, 0>> : dx \in -1 .. 1, dy \in -1 .. 1 }

\* CameraController::update_camera, as far as camera.eye goes
update_camera(eye, move) ==
    <<eye[1] + move[1], eye[2] + move[2], eye[3] + move[3]>>

\* The scene calls of State::new: create the camera node, attach it to the
\* root, give it the camera's eye as position.
state_new(ns, d, nh, eye) ==
    LET c  == create_node(ns, d, nh)
        a  == attach_to_parent(c.nodes, c.dirty, c.handle, root)
        camera_transform == [TransformNew EXCEPT !.position = eye]
        t  == set_transform(a.nodes, a.dirty, c.handle, camera_transform)
    IN  [camera_node |-> c.handle,
         next_handle |-> c.next_handle,
         nodes       |-> t.nodes,
         dirty       |-> t.dirty]

\* The scene calls of State::update, in the order the function makes them, for
\* camera node cam and the eye position update_camera has produced. calls is
\* the log of the calls.
state_update(ns, d, cam, eye) ==
    LET u == update_transforms(ns, d)
    IN  IF u.result = "diverged"
        THEN [result |-> "diverged", nodes |-> u.nodes, dirty |-> u.dirty,
              calls |-> <<"update_transforms">>]
        ELSE IF cam \in DOMAIN u.nodes
        THEN LET ns1 == [u.nodes EXCEPT ![cam].transform.position = eye]
                 m   == mark_transform_dirty(ns1, u.dirty, cam, {})
             IN  [result |-> IF m.ok THEN "Ok" ELSE "diverged",
                  nodes  |-> ns1,
                  dirty  |-> m.dirty,
                  calls  |-> <<"update_transforms", "get_node_mut",
                               "mark_transform_dirty">>]
        ELSE [result |-> "Ok", nodes |-> u.nodes, dirty |-> u.dirty,
              calls |-> <<"update_transforms", "get_node_mut">>]

\* State::new
StateNew ==
    /\ camera_node = None
    /\ LET r == state_new(nodes, dirty_transforms, next_handle, camera_eye)
       IN  /\ nodes' = r.nodes
           /\ dirty_transforms' = r.dirty
           /\ next_handle' = r.next_handle
           /\ camera_node' = Some(r.camera_node)
    /\ input' = InputNew
    /\ last' = Called("State::new", "Ok", NoArgs)
    /\ UNCHANGED camera_eye

\* State::update: the camera controller moves the eye, then the scene calls,
\* then the input state ends its frame. (The input state and the controller's
\* movement amounts feed the eye's displacement only.)
StateUpdate(move) ==
    /\ camera_node # None
    /\ Running
    /\ LET eye == update_camera(camera_eye, move)
           r   == state_update(nodes, dirty_transforms, camera_node[1], eye)
       IN  /\ \A i \in 1 .. 2 : eye[i] \in -MaxEye .. MaxEye
           /\ camera_eye' = eye
           /\ nodes' = r.nodes
           /\ dirty_transforms' = r.dirty
           /\ input' = IF r.result = "diverged" THEN input ELSE end_frame(input)
           /\ last' = Called("State::update", r.result, [calls |-> r.calls])
    /\ UNCHANGED <<next_handle, camera_node>>

NextFrame ==
    \/ StateNew /\ UNCHANGED instanceVars
    \/ \E move \in EyeMoves : StateUpdate(move) /\ UNCHANGED instanceVars

SpecFrame == Init /\ [][NextFrame]_vars

\* The scene calls of a frame that change the graph.
SceneMutations ==
    {"create_node", "attach_to_parent", "attach_to_root", "set_transform",
     "get_node_mut", "mark_transform_dirty"}

\* C18: in each frame run by State::update every scene-graph mutation, the
\* sync of the camera node's transform and its mark_transform_dirty included,
\* is made before update_transforms(), and the dirty list is empty when the
\* frame's update ends.
C18_MutationsBeforeRecompute ==
    last.op = "State::update" =>
        LET calls == last.args.calls
        IN  /\ \A i, j \in 1 .. Len(calls) :
                   (calls[i] \in SceneMutations /\ calls[j] = "update_transforms")
                       => i < j
            /\ dirty_transforms = EmptyVec

-----------------------------------------------------------------------------
\* Instances and the instance manager.

\* Mat4 -> [[f32; 4]; 4] (.into()): the array of the matrix's columns.
MatInto(m) ==
    << <<m[1][1], m[2][1], m[3][1], m[4][1]>>,
       <<m[1][2], m[2][2], m[3][2], m[4][2]>>,
       <<m[1][3], m[2][3], m[3][3], m[4][3]>>,
       <<m[1][4], m[2][4], m[3][4], m[4][4]>> >>

\* model_matrix.fixed_view::<3, 3>(0, 0)
FixedView3(m) ==
    << <<m[1][1], m[1][2], m[1][3]>>,
       <<m[2][1], m[2][2], m[2][3]>>,
       <<m[3][1], m[3][2], m[3][3]>> >>

\* The determinant of a 3x3 matrix.
Det3(a) ==
      a[1][1] * (a[2][2] * a[3][3] - a[2][3] * a[3][2])
    - a[1][2] * (a[2][1] * a[3][3] - a[2][3] * a[3][1])
    + a[1][3] * (a[2][1] * a[3][2] - a[2][2] * a[3][1])

\* The cofactor of entry (i, j) of a 3x3 matrix.
Cofactor3(a, i, j) ==
    LET i1 == (i % 3) + 1        i2 == ((i + 1) % 3) + 1
        j1 == (j % 3) + 1        j2 == ((j + 1) % 3) + 1
    IN  a[i1][j1] * a[i2][j2] - a[i1][j2] * a[i2][j1]

\* glm::inverse of a 3x3 matrix: the transposed cofactors over the determinant
\* (the instances of the model have matrices of determinant 1 or -1, so the
\* quotients are whole numbers).
Inverse3(a) ==
    [i \in 1 .. 3 |-> [j \in 1 .. 3 |-> Cofactor3(a, j, i) \div Det3(a)]]

\* glm::transpose of a 3x3 matrix
Transpose3(a) == [i \in 1 .. 3 |-> [j \in 1 .. 3 |-> a[j][i]]]

\* Instance::to_matrix: translation * rotation * scale
instance_to_matrix(instance) ==
    Mul(Mul(Translation(instance.position), QuatToMat4(instance.rotation)),
        Scaling(instance.scale))

\* Instance::calc_normal_matrix
calc_normal_matrix(model_matrix) ==
    LET normal_matrix == Transpose3(Inverse3(FixedView3(model_matrix)))
    IN  << <<normal_matrix[1][1], normal_matrix[1][2], normal_matrix[1][3], 0>>,
           <<normal_matrix[2][1], normal_matrix[2][2], normal_matrix[2][3], 0>>,
           <<normal_matrix[3][1], normal_matrix[3][2], normal_matrix[3][3], 0>> >>

\* Instance::to_raw
to_raw(instance) ==
    LET model_matrix == instance_to_matrix(instance)
    IN  [model         |-> MatInto(model_matrix),
         normal_matrix |-> calc_normal_matrix(model_matrix)]

\* The record create_instance_buffer fills the unused slots with.
Placeholder ==
    [model         |-> MatInto(Identity),
     normal_matrix |-> << <<1, 0, 0, 0>>, <<0, 1, 0, 0>>, <<0, 0, 1, 0>> >>]

\* The instances a caller passes: the default instance, and one that is moved
\* along x and turned half about z.
InstanceInputs ==
    { InstanceNew,
      [position |-> <<1, 0, 0>>, rotation |-> QuatHalfTurnZ, scale |-> <<1, 1, 1>>] }

\* The longest instance list a caller passes.
MaxInstances == max_instances_per_buffer + 2

\* The instance lists a caller passes to update_instances.
InstanceLists ==
    UNION { [1 .. n -> InstanceInputs] : n \in 0 .. MaxInstances }

\* The node handles a caller passes to the instance manager (it never looks
\* them up in a scene graph).
InstanceHandles == {root, root + 1}

\* instance.to_raw() for each instance a caller passes, as pairs of the
\* instance and its record (the conversion is worked out once per instance).
RawOfInputs == { <<instance, to_raw(instance)>> : instance \in InstanceInputs }

\* instances.iter().map(|instance| instance.to_raw()).collect()
InstanceData(instances) ==
    [i \in 1 .. Len(instances) |->
        (CHOOSE p \in RawOfInputs : p[1] = instances[i])[2]]

\* The number of record slots of a buffer.
Capacity(buffer) == Len(buffer.contents)

\* Vec::resize(new_len, value)
Resize(v, new_len, value) ==
    [i \in 1 .. new_len |-> IF i <= Len(v) THEN v[i] ELSE value]

\* A variant of write_buffer that leaves the buffer as it is.
write_buffer_keeps_contents(buffer, data) == buffer

\* gpu.queue.write_buffer(buffer, 0, data): the records of data replace the
\* first Len(data) slots, the other slots keep what they hold.
write_buffer(buffer, data) ==
    [contents |-> [i \in 1 .. Capacity(buffer) |->
                       IF i <= Len(data) THEN data[i] ELSE buffer.contents[i]]]

\* A variant of create_instance_buffer that makes the buffer as long as the
\* data and adds no placeholder.
create_instance_buffer_without_padding(buffers, node_handle, instance_data) ==
    Insert(buffers, node_handle,
           [contents |-> Resize(instance_data, Len(instance_data), Placeholder)])

\* A variant of create_instance_buffer that always makes a buffer of the
\* configured size and drops the records that do not fit.
create_instance_buffer_fixed_size(buffers, node_handle, instance_data) ==
    Insert(buffers, node_handle,
           [contents |-> Resize(instance_data, max_instances_per_buffer, Placeholder)])

\* InstanceManager::create_instance_buffer: the buffer map it leaves.
create_instance_buffer(buffers, node_handle, instance_data) ==
    LET buffer_size == IF Len(instance_data) >= max_instances_per_buffer
                       THEN Len(instance_data) ELSE max_instances_per_buffer
        buffer_data == Resize(instance_data, buffer_size, Placeholder)
    IN  Insert(buffers, node_handle, [contents |-> buffer_data])

\* InstanceManager::get_buffer: Some(buffer) or None
get_buffer(buffers, node_handle) ==
    IF node_handle \in DOMAIN buffers THEN <<buffers[node_handle]>> ELSE None

\* InstanceManager::get_instance_count: the recorded count, 0 without one
get_instance_count(counts, node_handle) ==
    IF node_handle \in DOMAIN counts THEN counts[node_handle] ELSE 0

\* A variant of update_instances that records the count only when it creates a
\* buffer, not when it overwrites one.
update_instances_counts_on_create(buffers, counts, node_handle, instances) ==
    LET instance_data == InstanceData(instances)
        path == IF node_handle \in DOMAIN buffers
                THEN IF Len(instances) <= max_instances_per_buffer
                     THEN "overwrite" ELSE "recreate"
                ELSE "create"
    IN  [path    |-> path,
         buffers |-> IF path = "overwrite"
                     THEN [buffers EXCEPT ![node_handle] = write_buffer(@, instance_data)]
                     ELSE create_instance_buffer(buffers, node_handle, instance_data),
         counts  |-> IF path = "overwrite" THEN counts
                     ELSE Insert(counts, node_handle, Len(instances))]

\* A variant of update_instances that discards the buffer of a handle on every
\* call and creates a new one.
update_instances_always_creates(buffers, counts, node_handle, instances) ==
    [path    |-> IF node_handle \in DOMAIN buffers THEN "recreate" ELSE "create",
     buffers |-> create_instance_buffer(buffers, node_handle, InstanceData(instances)),
     counts  |-> Insert(counts, node_handle, Len(instances))]

\* InstanceManager::update_instances: the maps it leaves and the path it took
\* ("create", "overwrite" or "recreate"). The count is instances.len() as u32;
\* the cast changes no length below 2^32.
update_instances(buffers, counts, node_handle, instances) ==
    LET instance_data == InstanceData(instances)
        path == IF node_handle \in DOMAIN buffers
                THEN IF Len(instances) <= max_instances_per_buffer
                     THEN "overwrite" ELSE "recreate"
                ELSE "create"
    IN  [path    |-> path,
         buffers |-> IF path = "overwrite"
                     THEN [buffers EXCEPT ![node_handle] = write_buffer(@, instance_data)]
                     ELSE create_instance_buffer(buffers, node_handle, instance_data),
         counts  |-> Insert(counts, node_handle, Len(instances))]

\* A variant of remove_node that drops the buffer and keeps the count.
remove_node_keeps_count(buffers, counts, node_handle) ==
    [buffers |-> Remove(buffers, node_handle), counts |-> counts]

\* A variant of remove_node that drops the count and keeps the buffer.
remove_node_keeps_buffer(buffers, counts, node_handle) ==
    [buffers |-> buffers, counts |-> Remove(counts, node_handle)]

\* InstanceManager::remove_node: the maps it leaves.
remove_node(buffers, counts, node_handle) ==
    [buffers |-> Remove(buffers, node_handle),
     counts  |-> Remove(counts, node_handle)]

\* InstanceManager::update_instances
UpdateInstances(node_handle, instances) ==
    /\ LET r == update_instances(instance_buffers, instance_counts,
                                 node_handle, instances)
       IN  /\ instance_buffers' = r.buffers
           /\ instance_counts' = r.counts
           /\ last' = Called("update_instances", "Ok",
                              [node_handle |-> node_handle,
                               instances |-> instances, path |-> r.path])
    /\ UNCHANGED <<sceneVars, stateVars>>

\* InstanceManager::remove_node
RemoveNode(node_handle) ==
    /\ LET r == remove_node(instance_buffers, instance_counts, node_handle)
       IN  /\ instance_buffers' = r.buffers
           /\ instance_counts' = r.counts
    /\ last' = Called("remove_node", "Ok", [node_handle |-> node_handle])
    /\ UNCHANGED <<sceneVars, stateVars>>

NextInstances ==
    \/ \E node_handle \in InstanceHandles, instances \in InstanceLists :
           UpdateInstances(node_handle, instances)
    \/ \E node_handle \in InstanceHandles : RemoveNode(node_handle)

SpecInstances == Init /\ [][NextInstances]_vars

\* C19: for every handle that has an instance buffer, the recorded instance
\* count is at most the number of record slots of the buffer bound to it.
C19_CountWithinCapacity ==
    \A h \in DOMAIN instance_buffers :
        h \in DOMAIN instance_counts =>
            instance_counts[h] <= Capacity(instance_buffers[h])

\* The buffer of a handle has been discarded and recreated for a list of the
\* greatest length: the count and the number of slots are both MaxInstances,
\* above the configured size, and no other handle has a buffer.
C19_Witness ==
    /\ last.op = "update_instances"
    /\ last.args.path = "recreate"
    /\ instance_counts[last.args.node_handle] = MaxInstances
    /\ Capacity(instance_buffers[last.args.node_handle]) = MaxInstances
    /\ DOMAIN instance_buffers = {last.args.node_handle}

\* C20: an update_instances call on a handle that has a buffer never leaves
\* the handle with a buffer of fewer slots, and it discards and recreates the
\* buffer only when the new instance count exceeds the slots of that buffer.
C20_CapacityOnlyGrows ==
    [][ ( /\ last'.op = "update_instances"
          /\ last'.args.node_handle \in DOMAIN instance_buffers ) =>
            LET h == last'.args.node_handle
            IN  /\ Capacity(instance_buffers'[h]) >= Capacity(instance_buffers[h])
                /\ last'.args.path = "recreate" =>
                       Len(last'.args.instances) > Capacity(instance_buffers[h])
      ]_vars

\* C21: an update_instances call with at most max_instances_per_buffer
\* instances creates a buffer only when the handle has none; on a handle that
\* has a buffer it overwrites that buffer in place, so a run of such calls on
\* one handle without remove_node creates one buffer, on its first call.
C21_SmallUpdatesOverwrite ==
    [][ ( /\ last'.op = "update_instances"
          /\ Len(last'.args.instances) <= max_instances_per_buffer ) =>
            LET h == last'.args.node_handle
            IN  IF h \in DOMAIN instance_buffers
                THEN /\ last'.args.path = "overwrite"
                     /\ Capacity(instance_buffers'[h]) = Capacity(instance_buffers[h])
                ELSE last'.args.path = "create"
      ]_vars

\* A buffer of the configured size has been overwritten in place with as many
\* instances as it has slots, the last of them not the default instance.
C21_Witness ==
    /\ last.op = "update_instances"
    /\ last.args.path = "overwrite"
    /\ Len(last.args.instances) = max_instances_per_buffer
    /\ Capacity(instance_buffers[last.args.node_handle]) = max_instances_per_buffer
    /\ last.args.instances[max_instances_per_buffer] # InstanceNew

\* C22: a buffer created for n instance records has exactly
\* max(n, max_instances_per_buffer) slots; and when update_instances finds a
\* buffer and n exceeds max_instances_per_buffer, the buffer bound to the
\* handle afterwards is a newly created one with at least n slots.
C22_CreatedCapacity ==
    [][ last'.op = "update_instances" =>
          LET h == last'.args.node_handle
              n == Len(last'.args.instances)
          IN  /\ last'.args.path \in {"create", "recreate"} =>
                     Capacity(instance_buffers'[h]) =
                         IF n >= max_instances_per_buffer
                         THEN n ELSE max_instances_per_buffer
              /\ (h \in DOMAIN instance_buffers /\ n > max_instances_per_buffer) =>
                     /\ last'.args.path = "recreate"
                     /\ Capacity(instance_buffers'[h]) >= n
      ]_vars

\* A buffer has been created for an empty instance list: its slots are there
\* through padding alone. Another handle has a buffer made for a long list.
C22_Witness ==
    /\ last.op = "update_instances"
    /\ last.args.path = "create"
    /\ last.args.instances = <<>>
    /\ Capacity(instance_buffers[last.args.node_handle]) = max_instances_per_buffer
    /\ \E g \in DOMAIN instance_buffers :
           Capacity(instance_buffers[g]) = MaxInstances

\* C23: every slot of a handle's buffer past the handle's recorded instance
\* count holds the identity placeholder record: no unused slot holds a record
\* left over from an earlier, longer instance list.
C23_UnusedSlotsHoldPlaceholder ==
    \A h \in DOMAIN instance_buffers \cap DOMAIN instance_counts :
        \A i \in instance_counts[h] + 1 .. Capacity(instance_buffers[h]) :
            instance_buffers[h].contents[i] = Placeholder

\* C24: get_instance_count(h) is the number of instances passed to the latest
\* update_instances(h, ...) that no remove_node(h) has followed, on the create,
\* overwrite and recreate paths alike, and it is 0, with get_buffer(h) None,
\* for a handle that was never updated. As steps: at the start every handle
\* has count 0 and no buffer; update_instances(h, instances) makes the count
\* of h the length of instances and leaves the count of every other handle;
\* remove_node(h) makes the count of h 0 and leaves the count of every other
\* handle.
C24_CountOfLatestUpdate ==
    /\ \A h \in InstanceHandles :
           /\ get_instance_count(instance_counts, h) = 0
           /\ get_buffer(instance_buffers, h) = None
    /\ [][ /\ last'.op = "update_instances" =>
                 \A g \in InstanceHandles :
                     get_instance_count(instance_counts', g) =
                         IF g = last'.args.node_handle
                         THEN Len(last'.args.instances)
                         ELSE get_instance_count(instance_counts, g)
           /\ last'.op = "remove_node" =>
                 \A g \in InstanceHandles :
                     get_instance_count(instance_counts', g) =
                         IF g = last'.args.node_handle
                         THEN 0
                         ELSE get_instance_count(instance_counts, g)
         ]_vars

\* The count of a handle has been set on the overwrite path to a number below
\* the one its buffer was created for, while the other handle has a count of
\* its own.
C24_Witness ==
    /\ last.op = "update_instances"
    /\ last.args.path = "overwrite"
    /\ get_instance_count(instance_counts, last.args.node_handle) = 0
    /\ Capacity(instance_buffers[last.args.node_handle]) = MaxInstances
    /\ \E g \in InstanceHandles :
           /\ g # last.args.node_handle
           /\ get_instance_count(instance_counts, g) = MaxInstances

\* C25: remove_node(h) drops the buffer and the count of h, so that
\* get_buffer(h) is None and get_instance_count(h) is 0 afterwards; it leaves
\* the entries of every other handle as they were; on a handle without entries
\* it changes nothing; and the update_instances(h, ...) that follows it creates
\* a buffer.
C25_RemoveNode ==
    [][ /\ last'.op = "remove_node" =>
              LET h == last'.args.node_handle
              IN  /\ get_buffer(instance_buffers', h) = None
                  /\ get_instance_count(instance_counts', h) = 0
                  /\ h \notin DOMAIN instance_counts'
                  /\ \A g \in InstanceHandles \ {h} :
                         /\ get_buffer(instance_buffers', g) =
                                get_buffer(instance_buffers, g)
                         /\ (g \in DOMAIN instance_counts') =
                                (g \in DOMAIN instance_counts)
                         /\ get_instance_count(instance_counts', g) =
                                get_instance_count(instance_counts, g)
                  /\ (h \notin DOMAIN instance_buffers /\ h \notin DOMAIN instance_counts)
                         => UNCHANGED instanceVars
        /\ ( /\ last.op = "remove_node"
             /\ last'.op = "update_instances"
             /\ last'.args.node_handle = last.args.node_handle ) =>
               last'.args.path = "create"
      ]_vars

\* remove_node has dropped the entries of a handle whose buffer had been
\* recreated, and the other handle still has its buffer and its count.
C25_Witness ==
    /\ last.op = "remove_node"
    /\ last.args.node_handle \notin DOMAIN instance_buffers
    /\ \E g \in DOMAIN instance_buffers :
           /\ g # last.args.node_handle
           /\ instance_counts[g] = 1
           /\ Capacity(instance_buffers[g]) = MaxInstances

-----------------------------------------------------------------------------
\* The recompute restricted to the dirty nodes, against the full traversal.

RECURSIVE RecomputeDirty(_, _, _, _, _)
RECURSIVE RecomputeDirtyChildren(_, _, _, _, _)

\* update_node_transform with one change: a node that is not in the dirty
\* list keeps its world transform. Parents are visited before their children,
\* and a child is given the world transform its parent has after the visit.
\* The walk stops at a handle whose visit is still under way.
RecomputeDirty(ns, d, handle, parent_world, active) ==
    IF handle \in active \/ handle \notin DOMAIN ns THEN ns
    ELSE
        LET world_transform ==
                IF Contains(d, handle)
                THEN Mul(parent_world, ToMatrix(ns[handle].transform))
                ELSE ns[handle].world_transform
            ns1 == [ns EXCEPT ![handle].world_transform = world_transform]
        IN  RecomputeDirtyChildren(ns1, d, ns1[handle].children, world_transform,
                                   active \cup {handle})

RecomputeDirtyChildren(ns, d, children, world_transform, active) ==
    IF children = <<>> THEN ns
    ELSE RecomputeDirtyChildren(
             RecomputeDirty(ns, d, Head(children), world_transform, active),
             d, Tail(children), world_transform, active)

\* The nodes reachable from the root through children edges, the root included.
RootReachable(ns) == ReachDown(ns, {root})

\* C26: after every call that has returned, every node that is reachable from
\* the root through children edges and is not in the dirty list has
\* world_transform = parent.world_transform x local.to_matrix() (the root: its
\* own local matrix); and whenever update_transforms() runs its full
\* traversal, the recompute restricted to the dirty nodes, parents before
\* children, would give every root-reachable node the same world transform.
C26_CleanNodesAreCurrent ==
    /\ [](Running =>
            \A h \in RootReachable(nodes) :
                ~Contains(dirty_transforms, h) =>
                    nodes[h].world_transform =
                        IF h = root
                        THEN ToMatrix(nodes[h].transform)
                        ELSE Mul(nodes[nodes[h].parent[1]].world_transform,
                                 ToMatrix(nodes[h].transform)))
    /\ [][ (last'.op = "update_transforms" /\ last'.result = "Ok") =>
              LET partial == RecomputeDirty(nodes, dirty_transforms, root, Identity, {})
              IN  \A h \in RootReachable(nodes) :
                      partial[h].world_transform = nodes'[h].world_transform
          ]_vars

\* Under the root there are a node that is not in the dirty list and has a
\* world transform other than the identity, and a node that is in the dirty
\* list and whose world transform is stale.
C26_Witness ==
    /\ Running
    /\ \E h \in RootReachable(nodes) \ {root} :
           /\ ~Contains(dirty_transforms, h)
           /\ nodes[h].world_transform # Identity
    /\ \E h \in RootReachable(nodes) \ {root} :
           /\ Contains(dirty_transforms, h)
           /\ ~WorldMatches(nodes, h)

\* C27: after every update_instances(h, instances) call, on the create,
\* overwrite and recreate paths alike, the first Len(instances) slots of the
\* buffer bound to h hold, in order, the raw records of the instances passed.
C27_BufferHoldsRawRecords ==
    last.op = "update_instances" =>
        LET h         == last.args.node_handle
            instances == last.args.instances
        IN  /\ h \in DOMAIN instance_buffers
            /\ Len(instances) <= Capacity(instance_buffers[h])
            /\ \A i \in 1 .. Len(instances) :
                   instance_buffers[h].contents[i] = to_raw(instances[i])

\* A buffer that was created for a longer list has been overwritten in place
\* with the moved instance, whose raw record differs from the placeholder.
C27_Witness ==
    /\ last.op = "update_instances"
    /\ last.args.path = "overwrite"
    /\ Len(last.args.instances) = 1
    /\ last.args.instances[1] # InstanceNew
    /\ Capacity(instance_buffers[last.args.node_handle]) > 1
    /\ instance_buffers[last.args.node_handle].contents[1] # Placeholder

\* C28: the buffer map and the count map of the instance manager have the
\* same set of handles: a handle has a buffer if and only if it has a recorded
\* count, an update with no instances included.
C28_SameHandlesInBothMaps ==
    DOMAIN instance_buffers = DOMAIN instance_counts

\* An update with an empty instance list has given a handle a buffer and the
\* count 0, and no other handle has an entry in either map.
C28_Witness ==
    /\ last.op = "update_instances"
    /\ last.args.instances = <<>>
    /\ DOMAIN instance_buffers = {last.args.node_handle}
    /\ DOMAIN instance_counts = {last.args.node_handle}
    /\ instance_counts[last.args.node_handle] = 0

\* C29: at the end of every State::update the camera node's local position is
\* the camera's eye position and the camera node's world transform is its
\* local matrix: the world transform read after the frame's update is that of
\* the camera position of the same frame.
C29_CameraNodeFollowsEye ==
    last.op = "State::update" =>
        LET camera == nodes[camera_node[1]]
        IN  /\ camera.transform.position = camera_eye
            /\ camera.world_transform = ToMatrix(camera.transform)

-----------------------------------------------------------------------------
\* The input state: the window's events arrive one at a time through
\* State::handle_input, which passes each to InputState::handle_window_event;
\* end_frame closes the frame.

\* Bound of the model: the cursor's x coordinate is in 0 .. MaxMouse.
MaxMouse == 1

\* The key codes and mouse buttons of the events
KeyCodes == {"KeyW", "F1"}

MouseButtons == {"Left"}

ElementStates == {"Pressed", "Released"}

\* The window events: key events with and without a key code, mouse button
\* events, cursor moves, wheel events of both kinds, and one event of a kind
\* handle_window_event has no branch for.
WindowEvents ==
    { [kind |-> "KeyboardInput",
       physical_key |-> [kind |-> "Code", code |-> k],
       state |-> st] : k \in KeyCodes, st \in ElementStates }
    \cup { [kind |-> "KeyboardInput",
            physical_key |-> [kind |-> "Unidentified"],
            state |-> st] : st \in ElementStates }
    \cup { [kind |-> "MouseInput", state |-> st, button |-> b] :
               st \in ElementStates, b \in MouseButtons }
    \cup { [kind |-> "CursorMoved", position |-> <<x, 0>>] : x \in 0 .. MaxMouse }
    \cup { [kind |-> "MouseWheel", delta |-> [kind |-> "LineDelta", y |-> 1]],
           [kind |-> "MouseWheel", delta |-> [kind |-> "PixelDelta", y |-> -100]] }
    \cup { [kind |-> "Focused"] }

\* InputState::handle_window_event
HandleWindowEvent(event) ==
    /\ input' = handle_window_event(input, event)
    /\ last' = Called("handle_window_event", "Ok", [event |-> event])
    /\ UNCHANGED <<sceneVars, camera_eye, camera_node, instanceVars>>

\* InputState::end_frame
EndFrame ==
    /\ input' = end_frame(input)
    /\ last' = Called("end_frame", "Ok", NoArgs)
    /\ UNCHANGED <<sceneVars, camera_eye, camera_node, instanceVars>>

NextInput ==
    \/ \E event \in WindowEvents : HandleWindowEvent(event)
    \/ EndFrame

SpecInput == Init /\ [][NextInput]_vars

\* The event is a key event for key code k with the given state.
IsKeyEvent(event, k, state) ==
    /\ event.kind = "KeyboardInput"
    /\ event.physical_key.kind = "Code"
    /\ event.physical_key.code = k
    /\ event.state = state

\* C30: edge tracking of the input state. No key is pressed, released or held
\* at the start. An event sets is_key_pressed(k) if and only if it is a
\* Pressed event for k and k was not held, and sets is_key_released(k) if and
\* only if it is a Released event for k and k was held; what earlier events of
\* the frame have set stays set. end_frame makes both false for every key and
\* leaves is_key_held as it is.
C30_EdgeTracking ==
    /\ \A k \in KeyCodes :
           /\ ~is_key_pressed(input, k)
           /\ ~is_key_released(input, k)
           /\ ~is_key_held(input, k)
    /\ [][ /\ last'.op = "handle_window_event" =>
                \A k \in KeyCodes :
                    /\ is_key_pressed(input', k) <=>
                           \/ is_key_pressed(input, k)
                           \/ /\ IsKeyEvent(last'.args.event, k, "Pressed")
                              /\ ~is_key_held(input, k)
                    /\ is_key_released(input', k) <=>
                           \/ is_key_released(input, k)
                           \/ /\ IsKeyEvent(last'.args.event, k, "Released")
                              /\ is_key_held(input, k)
           /\ last'.op = "end_frame" =>
                \A k \in KeyCodes :
                    /\ ~is_key_pressed(input', k)
                    /\ ~is_key_released(input', k)
                    /\ is_key_held(input', k) <=> is_key_held(input, k) ]_vars

\* A Pressed event has arrived for a key that was held since an earlier frame,
\* and the key is not pressed in this frame; another key has been released in
\* this frame.
C30_Witness ==
    /\ last.op = "handle_window_event"
    /\ \E k \in KeyCodes :
           /\ IsKeyEvent(last.args.event, k, "Pressed")
           /\ is_key_held(input, k)
           /\ ~is_key_pressed(input, k)
           /\ \E other \in KeyCodes \ {k} :
                  /\ is_key_released(input, other)
                  /\ ~is_key_held(input, other)

====
